---- MODULE Spec2Model ----
(***************************************************************************)
(* Model of the AWS audit tools under aws_audit: the CloudFormation stack   *)
(* resolvers of the DynamoDB, SNS, SQS, Step Functions and S3 auditors,    *)
(* the StackName field the row builders write, the environment             *)
(* classifiers of the auditors, the CloudWatch metric aggregators, the row *)
(* builders, and the listing loops with main.                              *)
(*                                                                         *)
(* Strings are sequences of atoms: a name that the code inspects by        *)
(* character (bucket, table, topic, function names, tag values) is a       *)
(* sequence of one-character strings; an ARN or URL, which the code only   *)
(* splits at ':' and '/', is a sequence whose delimiters are one-character *)
(* atoms and whose other atoms are delimiter-free words.                   *)
(***************************************************************************)
EXTENDS Integers, Sequences, FiniteSets, TLC

(***************************************************************************)
(* Bounds of the model.                                                    *)
(***************************************************************************)
\* longest StackResourceSummaries list a list_stack_resources response holds
MaxSummaries == 2
\* most hyphen-separated segments of a generated bucket name
MaxSegs == 2
\* most delimiter-separated segments of a generated name handed to a classifier
MaxNameSegs == 3

(***************************************************************************)
(* Python string primitives.                                               *)
(***************************************************************************)
\* Python's None, as a value distinct from every string
None == <<"None">>

\* seq[-1]
Last(s) == s[Len(s)]

RECURSIVE SplitFrom(_, _, _, _)
SplitFrom(s, d, i, cur) ==
    IF i > Len(s) THEN <<cur>>
    ELSE IF s[i] = d THEN <<cur>> \o SplitFrom(s, d, i + 1, <<>>)
    ELSE SplitFrom(s, d, i + 1, Append(cur, s[i]))

\* str.split(d) for a one-character delimiter d
Split(s, d) == SplitFrom(s, d, 1, <<>>)

RECURSIVE Join(_, _)
\* d.join(parts)
Join(parts, d) ==
    IF Len(parts) = 0 THEN <<>>
    ELSE IF Len(parts) = 1 THEN parts[1]
    ELSE parts[1] \o d \o Join(Tail(parts), d)

\* sub in s
Contains(s, sub) ==
    \E i \in 1..(Len(s) - Len(sub) + 1) : SubSeq(s, i, i + Len(sub) - 1) = sub

\* truthiness of an optional string: neither None nor ''
Truthy(v) == v # None /\ v # <<>>

\* dict.get(k), None when the key is absent
Get(m, k) == IF k \in DOMAIN m THEN m[k] ELSE None

\* dict.get(k, default)
GetOr(m, k, default) == IF k \in DOMAIN m THEN m[k] ELSE default

(***************************************************************************)
(* Names, tags and accessor responses the resolvers are run against.       *)
(***************************************************************************)
\* the reserved tag key CloudFormation puts on the resources of a stack
StackKey == "aws:cloudformation:stack-name"

StackA == <<"A">>
StackB == <<"B">>
StackC == <<"C">>

\* names of n segments over the words ws, separated by the delimiters ds
RECURSIVE NamesOf(_, _, _)
NamesOf(n, ws, ds) ==
    IF n = 1 THEN ws
    ELSE {p \o <<d>> \o w : p \in NamesOf(n - 1, ws, ds), d \in ds, w \in ws}

NamesUpTo(n, ws, ds) == UNION {NamesOf(k, ws, ds) : k \in 1..n}

BucketNames == NamesUpTo(MaxSegs, {<<"a">>, <<"b">>}, {"-"})

DynamoDBArn == <<"arn", ":", "aws", ":", "dynamodb", ":", "r", ":", "1", ":", "table", "/", "T">>
SNSArn == <<"arn", ":", "aws", ":", "sns", ":", "r", ":", "1", ":", "topic">>
SFNArn == <<"arn", ":", "aws", ":", "states", ":", "r", ":", "1", ":", "stateMachine", ":", "sm">>
SQSArn == <<"arn", ":", "aws", ":", "sqs", ":", "r", ":", "1", ":", "q">>
\* a queue ARN with fewer than six colon-separated parts
ShortArn == <<"sqs", ":", "q">>
SQSUrl == <<"https", ":", "/", "/", "sqs", ".", "r", ".", "amazonaws", ".", "com", "/", "1", "/", "q">>

Kinds == {"dynamodb", "sns", "sqs", "sfn", "s3"}

NoTags == [k \in {} |-> <<>>]

\* tag sets a tag accessor may return
TagMaps ==
    { NoTags,
      [k \in {StackKey} |-> StackA],
      [k \in {StackKey} |-> <<>>],
      [k \in {"team"} |-> StackB] }

\* a tag accessor's behaviour: it raises, or returns a tag set
TagResps == {[ok |-> FALSE, Tags |-> NoTags]} \cup {[ok |-> TRUE, Tags |-> m] : m \in TagMaps}

\* describe_stack_resources: a non-empty StackResources list, an empty one, a
\* ClientError saying the resource "does not exist", another ClientError, or an
\* exception that is no ClientError (connection failure)
LookupResps ==
    {[t |-> "found", StackName |-> n] : n \in {StackB, StackC}}
    \cup {[t |-> x, StackName |-> <<>>] : x \in {"empty", "notfound", "clienterror", "error"}}

\* resource summaries a list_stack_resources response may hold for a bucket
Summaries(bucket) ==
    { [ResourceType |-> "AWS::S3::Bucket", PhysicalResourceId |-> bucket, StackName |-> StackB],
      [ResourceType |-> "AWS::S3::Bucket", PhysicalResourceId |-> bucket, StackName |-> StackC],
      [ResourceType |-> "AWS::S3::Bucket", PhysicalResourceId |-> <<"z">>, StackName |-> StackC],
      [ResourceType |-> "AWS::SQS::Queue", PhysicalResourceId |-> bucket, StackName |-> StackC] }

SeqsUpTo(S, n) == UNION {[1..k -> S] : k \in 0..n}

\* list_stack_resources: it raises, or returns a list of summaries
ListResps(bucket) ==
    {[ok |-> FALSE, StackResourceSummaries |-> <<>>]}
    \cup {[ok |-> TRUE, StackResourceSummaries |-> l] : l \in SeqsUpTo(Summaries(bucket), MaxSummaries)}

\* the stacks the registry may know by name
StackSets == SUBSET {<<"a">>, <<"b">>}

(***************************************************************************)
(* Exceptions: a handler catches the classes it names and their            *)
(* subclasses; ClientError is a subclass of Exception.                     *)
(***************************************************************************)
ExcClass(o) == IF o.t \in {"notfound", "clienterror"} THEN "ClientError" ELSE "Exception"

Catches(handler, cls) == handler = "Exception" \/ handler = cls

\* 'does not exist' in str(e)
DoesNotExist(o) == o.t = "notfound"

(***************************************************************************)
(* State.                                                                  *)
(***************************************************************************)
VARIABLES
    kind,           \* which auditor's resolver runs
    resource_arn,   \* the ARN handed to get_stack_name_from_arn
    queue_url,      \* SQS: the queue_url argument, '' when not given
    bucket_name,    \* S3: the bucket handed to get_stack_name_from_bucket
    tagResp,        \* how the tag accessor answers
    cfResp,         \* how describe_stack_resources answers its 1st, 2nd, ... call
    listResp,       \* S3: how list_stack_resources answers
    stacks,         \* S3: names of the stacks describe_stacks finds
    cfDown,         \* S3: describe_stacks fails whatever the name
    pc,             \* position in the resolver: tags, physical, naming, done, row
    idx,            \* SQS: index into identifiers_to_try
    calls,          \* the accessor calls made so far, in order
    stack_name,     \* the value the resolver returned
    strategy,       \* which return produced it: 1 tags, 2 physical, 3 naming, 0 fallback
    raised,         \* an exception left the resolver
    row,            \* the StackName field of the row built for the resource
    resource_name,  \* the name handed to the classifier
    tags,           \* the tag set handed to the classifier
    environment,    \* the Environment value of the row
    cloudwatch,     \* how get_metric_statistics answers each metric query
    clients,        \* how the other client calls of a row builder answer
    metrics,        \* the metrics the aggregator returned
    rows,           \* the rows the row builder has appended
    listing,        \* the pages the inventory listing answers with
    fails,          \* the resources whose enrichment raises
    page,           \* the number of the page the next listing call asks for
    pending,        \* the listed resources the loop has not yet taken
    handed,         \* the resources handed to the per-resource body, in order
    returned,       \* the rows the operation returned
    exit_code       \* what main returned

inputs == <<kind, resource_arn, queue_url, bucket_name, tagResp, cfResp, listResp, stacks, cfDown>>

\* the classifier's state
cvars == <<resource_name, tags, environment>>

\* the aggregators' and row builders' state
avars == <<cloudwatch, clients, metrics, rows>>

\* the state of the listing loop and of main
bvars == <<listing, fails, page, pending, handed, returned, exit_code>>

\* no listing loop runs
NoBatch ==
    /\ listing = <<>>
    /\ fails = {}
    /\ page = 1
    /\ pending = <<>>
    /\ handed = <<>>
    /\ returned = <<>>
    /\ exit_code = 0

\* the resolver's state
rvars == <<idx, calls, stack_name, strategy, raised, row>>

vars == <<kind, resource_arn, queue_url, bucket_name, tagResp, cfResp, listResp, stacks, cfDown,
          pc, idx, calls, stack_name, strategy, raised, row, resource_name, tags, environment,
          cloudwatch, clients, metrics, rows,
          listing, fails, page, pending, handed, returned, exit_code>>

\* no value yet
Unset == <<"unset">>

\* a return statement of a resolver
Return(v, s) ==
    /\ pc' = "done"
    /\ stack_name' = v
    /\ strategy' = s
    /\ UNCHANGED raised

\* an exception no handler of the resolver catches
Raise ==
    /\ pc' = "done"
    /\ raised' = TRUE
    /\ UNCHANGED <<stack_name, strategy>>

\* one call of an AWS client method
Call(api, arg) == calls' = Append(calls, [api |-> api, arg |-> arg])

\* ToPhysical with the tag block's miss ending the resolver
ToPhysical_giveup == Return(<<>>, 0)

\* the resolver leaves the tag block and enters the physical-identifier lookup
ToPhysical ==
    /\ pc' = "physical"
    /\ UNCHANGED <<stack_name, strategy, raised>>

\* TagHit with the `if stack_name: return stack_name` left out
TagHit_never(resp) == FALSE

\* the tag block returns: the accessor did not raise and the reserved key
\* carries a value that is truthy
TagHit(resp) == resp.ok /\ Truthy(Get(resp.Tags, StackKey))

(***************************************************************************)
(* SQSAuditor.get_stack_name_from_arn                                      *)
(***************************************************************************)
_arn_to_url(queue_arn) ==
    LET parts == Split(queue_arn, ":") IN
    IF Len(parts) >= 6
    THEN <<"https", ":", "/", "/", "sqs", ".">> \o parts[4]
         \o <<".", "amazonaws", ".", "com", "/">> \o parts[5] \o <<"/">> \o parts[6]
    ELSE <<>>

\* identifiers_to_try with the full ARN tried first
identifiers_to_try_arn_first(arn, url) ==
    << arn,
       IF url # <<>> THEN url ELSE _arn_to_url(arn),
       Last(Split(arn, ":")) >>

identifiers_to_try(arn, url) ==
    << IF url # <<>> THEN url ELSE _arn_to_url(arn),
       Last(Split(arn, ":")),
       arn >>

\* SQS_after_lookup with 'does not exist' ending the loop
SQS_after_lookup_break(o) ==
    CASE o.t = "found" -> "return"
      [] o.t = "empty" -> "next"
      [] o.t = "notfound" -> "abort"
      [] o.t = "clienterror" -> "next"
      [] o.t = "error" -> "next"

\* what the loop does with the answer for one identifier: "return" the stack,
\* go on to the "next" identifier, or "abort" the resolver with ''
SQS_after_lookup(o) ==
    CASE o.t = "found" -> "return"
      [] o.t = "empty" -> "next"
      [] o.t = "notfound" -> "next"
      [] o.t = "clienterror" -> "next"
      [] o.t = "error" -> "next"

SQS_tags ==
    /\ kind = "sqs" /\ pc = "tags"
    /\ Call("list_queue_tags", IF queue_url # <<>> THEN queue_url ELSE _arn_to_url(resource_arn))
    /\ IF TagHit(tagResp)
       THEN Return(tagResp.Tags[StackKey], 1)
       ELSE ToPhysical
    /\ UNCHANGED <<bvars, avars, inputs, idx, row, cvars>>

SQS_physical ==
    /\ kind = "sqs" /\ pc = "physical"
    /\ LET ids == identifiers_to_try(resource_arn, queue_url)
           o == cfResp[idx]
           todo == SQS_after_lookup(o)
       IN /\ Call("describe_stack_resources", ids[idx])
          /\ IF todo = "return" THEN Return(o.StackName, 2) /\ UNCHANGED idx
             ELSE IF todo = "next" /\ idx < Len(ids)
             THEN idx' = idx + 1 /\ UNCHANGED <<pc, stack_name, strategy, raised>>
             ELSE Return(<<>>, 0) /\ UNCHANGED idx
    /\ UNCHANGED <<bvars, avars, inputs, row, cvars>>

(***************************************************************************)
(* DynamoDBAuditor, SNSAuditor, StepFunctionsAuditor                       *)
(* .get_stack_name_from_arn: the tag block, then one registry lookup whose *)
(* handler names ClientError only, inside an outer handler for Exception.  *)
(***************************************************************************)
\* DirectLookup without the outer `except Exception`
DirectLookup_no_outer(id, miss) ==
    LET o == cfResp[1] IN
    /\ Call("describe_stack_resources", id)
    /\ IF o.t = "found" THEN Return(o.StackName, 2)
       ELSE IF o.t = "empty" THEN Return(miss, 0)
       ELSE IF Catches("ClientError", ExcClass(o)) THEN Return(miss, 0)
       ELSE Raise

\* the single lookup of these three resolvers, for the physical id given;
\* miss is the value of the final return statement
DirectLookup(id, miss) ==
    LET o == cfResp[1] IN
    /\ Call("describe_stack_resources", id)
    /\ IF o.t = "found" THEN Return(o.StackName, 2)
       ELSE IF o.t = "empty" THEN Return(miss, 0)
       ELSE IF Catches("ClientError", ExcClass(o)) THEN Return(miss, 0)
       ELSE IF Catches("Exception", ExcClass(o)) THEN Return(miss, 0)
       ELSE Raise

DynamoDB_tags ==
    /\ kind = "dynamodb" /\ pc = "tags"
    /\ Call("list_tags_of_resource", resource_arn)
    /\ IF TagHit(tagResp)
       THEN Return(tagResp.Tags[StackKey], 1)
       ELSE ToPhysical
    /\ UNCHANGED <<bvars, avars, inputs, idx, row, cvars>>

DynamoDB_physical ==
    /\ kind = "dynamodb" /\ pc = "physical"
    /\ DirectLookup(Last(Split(resource_arn, "/")), <<>>)
    /\ UNCHANGED <<bvars, avars, inputs, idx, row, cvars>>

SNS_tags ==
    /\ kind = "sns" /\ pc = "tags"
    /\ Call("list_tags_for_resource", resource_arn)
    /\ IF TagHit(tagResp)
       THEN Return(tagResp.Tags[StackKey], 1)
       ELSE ToPhysical
    /\ UNCHANGED <<bvars, avars, inputs, idx, row, cvars>>

SNS_physical ==
    /\ kind = "sns" /\ pc = "physical"
    /\ DirectLookup(Last(Split(resource_arn, ":")), <<>>)
    /\ UNCHANGED <<bvars, avars, inputs, idx, row, cvars>>

SFN_tags ==
    /\ kind = "sfn" /\ pc = "tags"
    /\ Call("list_tags_for_resource", resource_arn)
    /\ IF TagHit(tagResp)
       THEN Return(tagResp.Tags[StackKey], 1)
       ELSE ToPhysical
    /\ UNCHANGED <<bvars, avars, inputs, idx, row, cvars>>

SFN_physical ==
    /\ kind = "sfn" /\ pc = "physical"
    /\ DirectLookup(Last(Split(Last(Split(resource_arn, ":")), "/")), None)
    /\ UNCHANGED <<bvars, avars, inputs, idx, row, cvars>>

(***************************************************************************)
(* S3Auditor.get_stack_name_from_bucket                                    *)
(***************************************************************************)
\* the StackName of the first summary that is a bucket with this physical
\* id, None when the loop ends without one
FirstBucketMatch(l, bucket) ==
    LET hits == {i \in 1..Len(l) : /\ l[i].ResourceType = "AWS::S3::Bucket"
                                   /\ l[i].PhysicalResourceId = bucket}
    IN IF hits = {} THEN None
       ELSE l[CHOOSE i \in hits : \A j \in hits : i <= j].StackName

\* possible_stack_name dropping the first segment instead of the last
possible_stack_name_tail(bucket) ==
    LET parts == Split(bucket, "-") IN Join(Tail(parts), <<"-">>)

\* '-'.join(bucket_name.split('-')[:-1])
possible_stack_name(bucket) ==
    LET parts == Split(bucket, "-") IN Join(SubSeq(parts, 1, Len(parts) - 1), <<"-">>)

S3_tags ==
    /\ kind = "s3" /\ pc = "tags"
    /\ Call("get_bucket_tagging", bucket_name)
    /\ IF tagResp.ok /\ StackKey \in DOMAIN tagResp.Tags
       THEN Return(tagResp.Tags[StackKey], 1)
       ELSE ToPhysical
    /\ UNCHANGED <<bvars, avars, inputs, idx, row, cvars>>

S3_physical ==
    /\ kind = "s3" /\ pc = "physical"
    /\ Call("list_stack_resources", <<>>)
    /\ LET hit == FirstBucketMatch(listResp.StackResourceSummaries, bucket_name) IN
       IF ~listResp.ok THEN Return(<<>>, 0)
       ELSE IF hit # None THEN Return(hit, 2)
       ELSE IF Contains(bucket_name, <<"-">>)
       THEN pc' = "naming" /\ UNCHANGED <<stack_name, strategy, raised>>
       ELSE Return(<<>>, 0)
    /\ UNCHANGED <<bvars, avars, inputs, idx, row, cvars>>

S3_naming ==
    /\ kind = "s3" /\ pc = "naming"
    /\ Call("describe_stacks", possible_stack_name(bucket_name))
    /\ IF ~cfDown /\ possible_stack_name(bucket_name) \in stacks
       THEN Return(possible_stack_name(bucket_name), 3)
       ELSE Return(<<>>, 0)
    /\ UNCHANGED <<bvars, avars, inputs, idx, row, cvars>>

(***************************************************************************)
(* The StackName field of the row each row builder assembles from the      *)
(* resolver's return value.                                                *)
(***************************************************************************)
NotManaged == <<"Not managed by CloudFormation">>

\* 'StackName': stack_name
PlainStackNameField(v) == v

\* SFN_StackNameField without the placeholder
SFN_StackNameField_plain(v) == v

\* 'StackName': stack_name or 'Not managed by CloudFormation'
SFN_StackNameField(v) == IF Truthy(v) THEN v ELSE NotManaged

PutStackName(k, v) ==
    /\ kind = k /\ pc = "done" /\ ~raised
    /\ row' = v
    /\ pc' = "row"
    /\ UNCHANGED <<bvars, avars, inputs, idx, calls, stack_name, strategy, raised, cvars>>

DynamoDB_row == PutStackName("dynamodb", PlainStackNameField(stack_name))

SNS_row == PutStackName("sns", PlainStackNameField(stack_name))

SQS_row == PutStackName("sqs", PlainStackNameField(stack_name))

S3_row == PutStackName("s3", PlainStackNameField(stack_name))

SFN_row == PutStackName("sfn", SFN_StackNameField(stack_name))

(***************************************************************************)
(* The resolvers, each run once on a resource and accessor behaviours      *)
(* chosen at the start.                                                    *)
(***************************************************************************)
ResolveInit ==
    /\ kind \in Kinds
    /\ resource_arn \in CASE kind = "dynamodb" -> {DynamoDBArn}
                          [] kind = "sns" -> {SNSArn}
                          [] kind = "sfn" -> {SFNArn}
                          [] kind = "sqs" -> {SQSArn, ShortArn}
                          [] kind = "s3" -> {<<>>}
    /\ queue_url \in IF kind = "sqs" THEN {<<>>, SQSUrl} ELSE {<<>>}
    /\ bucket_name \in IF kind = "s3" THEN BucketNames ELSE {<<>>}
    /\ tagResp \in TagResps
    /\ cfResp \in CASE kind = "sqs" -> [1..3 -> LookupResps]
                    [] kind = "s3" -> {<<>>}
                    [] OTHER -> [1..1 -> LookupResps]
    /\ listResp \in IF kind = "s3" THEN ListResps(bucket_name)
                    ELSE {[ok |-> FALSE, StackResourceSummaries |-> <<>>]}
    /\ stacks \in IF kind = "s3" THEN StackSets ELSE {{}}
    /\ cfDown \in IF kind = "s3" THEN BOOLEAN ELSE {FALSE}
    /\ pc = "tags"
    /\ idx = 1
    /\ calls = <<>>
    /\ stack_name = Unset
    /\ strategy = 0
    /\ raised = FALSE
    /\ row = Unset
    /\ resource_name = <<>>
    /\ tags = NoTags
    /\ environment = Unset
    /\ cloudwatch = <<>>
    /\ clients = <<>>
    /\ metrics = <<>>
    /\ rows = <<>>
    /\ NoBatch

ResolveNext ==
    \/ SQS_tags
    \/ SQS_physical
    \/ DynamoDB_tags
    \/ DynamoDB_physical
    \/ SNS_tags
    \/ SNS_physical
    \/ SFN_tags
    \/ SFN_physical
    \/ S3_tags
    \/ S3_physical
    \/ S3_naming
    \/ DynamoDB_row
    \/ SNS_row
    \/ SQS_row
    \/ S3_row
    \/ SFN_row

ResolveSpec == ResolveInit /\ [][ResolveNext]_vars

(***************************************************************************)
(* Properties of the resolvers.                                            *)
(***************************************************************************)
Finished == pc \in {"done", "row"}

RegistryApis == {"describe_stack_resources", "list_stack_resources", "describe_stacks"}

IsLookup(c) == c.api = "describe_stack_resources"

\* the describe_stack_resources calls made so far, in order
Lookups == SelectSeq(calls, IsLookup)

\* the tag accessor returned a tag set holding the reserved key
TagPresent == tagResp.ok /\ StackKey \in DOMAIN tagResp.Tags

C2_ShortCircuit ==
    (TagPresent /\ tagResp.Tags[StackKey] # <<>>) =>
        /\ \A j \in 1..Len(calls) : calls[j].api \notin RegistryApis
        /\ Finished => stack_name = tagResp.Tags[StackKey] /\ strategy = 1

\* C2 witness: the tag names stack A while the registry would have answered
\* with another stack, and the resolver returned A.
C2_Witness ==
    /\ kind = "sqs" /\ pc = "done"
    /\ TagPresent /\ tagResp.Tags[StackKey] = StackA
    /\ cfResp[1].t = "found" /\ cfResp[1].StackName = StackB
    /\ stack_name = StackA

\* C3: when the tag accessor raises or the reserved key is absent, the
\* resolver neither returns from the tag block nor raises: it is at the
\* physical-identifier lookup, or has made it as its second call.
C3_TagFailsSilently ==
    (~TagPresent /\ pc # "tags") =>
        /\ ~raised
        /\ \/ pc = "physical"
           \/ /\ Len(calls) >= 2
              /\ calls[2].api \in {"describe_stack_resources", "list_stack_resources"}

\* C3 witness: the tag accessor raised and the physical lookup found the stack.
C3_Witness ==
    /\ ~tagResp.ok /\ pc = "done" /\ strategy = 2 /\ stack_name = StackB

\* C4: the SQS resolver queries queue URL, queue name, full ARN in this order,
\* stops at the first identifier with a non-empty resource list and returns
\* the stack of that identifier.
C4_CandidateOrder ==
    kind = "sqs" =>
        LET expected == << IF queue_url # <<>> THEN queue_url ELSE _arn_to_url(resource_arn),
                           Last(Split(resource_arn, ":")),
                           resource_arn >>
            found == {i \in 1..3 : cfResp[i].t = "found"}
            first == CHOOSE i \in found : \A j \in found : i <= j
        IN /\ \A j \in 1..Len(Lookups) : Lookups[j].arg = expected[j]
           /\ (Finished /\ Len(Lookups) >= 1 /\ found # {}) =>
                  /\ Len(Lookups) = first
                  /\ stack_name = cfResp[first].StackName

\* C4 witness: the first identifier has an empty resource list, the second and
\* third are registered under different stacks, and the second one's is returned.
C4_Witness ==
    /\ kind = "sqs" /\ pc = "done" /\ resource_arn = SQSArn
    /\ cfResp[1].t = "empty"
    /\ cfResp[2].t = "found" /\ cfResp[2].StackName = StackB
    /\ cfResp[3].t = "found" /\ cfResp[3].StackName = StackC
    /\ Len(Lookups) = 2 /\ stack_name = StackB

\* C5: in the SQS resolver a 'does not exist' answer for an identifier is
\* followed by the query of the next identifier, and a match after such answers
\* is returned.
C5_NotFoundContinues ==
    (kind = "sqs" /\ Finished) =>
        /\ \A i \in 1..2 :
              (Len(Lookups) >= i /\ cfResp[i].t = "notfound") => Len(Lookups) >= i + 1
        /\ \A j \in 1..3 :
              (/\ Len(Lookups) >= 1
               /\ cfResp[j].t = "found"
               /\ \A i \in 1..(j - 1) : cfResp[i].t = "notfound")
              => stack_name = cfResp[j].StackName

\* C5 witness: two identifiers do not exist and the third one's stack is returned.
C5_Witness ==
    /\ kind = "sqs" /\ pc = "done"
    /\ cfResp[1].t = "notfound" /\ cfResp[2].t = "notfound" /\ cfResp[3].t = "found"
    /\ Len(Lookups) = 3 /\ stack_name = cfResp[3].StackName

\* the answer the registry gave to the j-th call of the resolution was a
\* failure other than 'does not exist'
TransportErrorAt(j) ==
    \/ /\ calls[j].api = "describe_stack_resources"
       /\ cfResp[IF kind = "sqs" THEN j - 1 ELSE 1].t \in {"clienterror", "error"}
    \/ /\ calls[j].api = "list_stack_resources"
       /\ ~listResp.ok

\* C6: a registry failure other than 'does not exist' on a physical-identifier
\* lookup ends the resolver: that lookup is its last call and the name it
\* returns is empty.
C6_TransportErrorAborts ==
    Finished =>
        \A j \in 1..Len(calls) :
            TransportErrorAt(j) => j = Len(calls) /\ ~Truthy(stack_name)

\* C7: the bucket resolver calls describe_stacks only after the tag block and
\* the resource list both missed, with the bucket name less its last
\* hyphen-delimited segment, and returns that name exactly when the registry
\* finds a stack of that name.
C7_NamingConvention ==
    kind = "s3" =>
        LET l == listResp.StackResourceSummaries
            named == {j \in 1..Len(calls) : calls[j].api = "describe_stacks"}
        IN /\ \A j \in named :
                 /\ ~TagPresent
                 /\ listResp.ok
                 /\ \A i \in 1..Len(l) : ~(/\ l[i].ResourceType = "AWS::S3::Bucket"
                                           /\ l[i].PhysicalResourceId = bucket_name)
                 /\ \E n \in 1..Len(bucket_name) :
                       /\ bucket_name[n] = "-"
                       /\ \A m \in (n + 1)..Len(bucket_name) : bucket_name[m] # "-"
                       /\ calls[j].arg = SubSeq(bucket_name, 1, n - 1)
           /\ Finished =>
                 /\ strategy = 3 <=> \E j \in named : calls[j].arg \in stacks /\ ~cfDown
                 /\ strategy = 3 => \E j \in named : stack_name = calls[j].arg
                 /\ (named # {} /\ strategy # 3) => stack_name = <<>>

\* C7 witness: bucket a-b, no tag, not in the resource list, stack a exists
\* and is returned.
C7_Witness ==
    /\ kind = "s3" /\ pc = "done" /\ strategy = 3
    /\ bucket_name = <<"a", "-", "b">> /\ stack_name = <<"a">>

LowerLetters == <<"a", "b", "c", "d", "e", "f", "g", "h", "i", "j", "k", "l", "m", "n", "o", "p", "q", "r", "s", "t", "u", "v", "w", "x", "y", "z">>
UpperLetters == <<"A", "B", "C", "D", "E", "F", "G", "H", "I", "J", "K", "L", "M", "N", "O", "P", "Q", "R", "S", "T", "U", "V", "W", "X", "Y", "Z">>

\* the position of c in the alphabet abc, 0 when it is not in it
Pos(abc, c) == IF \E i \in 1..Len(abc) : abc[i] = c
               THEN CHOOSE i \in 1..Len(abc) : abc[i] = c
               ELSE 0

\* str.lower()
Lower(s) == [i \in 1..Len(s) |->
                IF Pos(UpperLetters, s[i]) # 0 THEN LowerLetters[Pos(UpperLetters, s[i])] ELSE s[i]]

\* str.upper()
Upper(s) == [i \in 1..Len(s) |->
                IF Pos(LowerLetters, s[i]) # 0 THEN UpperLetters[Pos(LowerLetters, s[i])] ELSE s[i]]

\* x in l, for a list l
InList(x, l) == \E i \in 1..Len(l) : l[i] = x

\* any(x in s for x in l)
AnyIn(l, s) == \E i \in 1..Len(l) : Contains(s, l[i])

\* the least of the indices in hits, 0 when there is none: where a loop
\* `for x in l: if test(x): ...; break` stops, hits being the indices of the
\* elements that pass the test
FirstIdx(hits) ==
    IF hits = {} THEN 0 ELSE CHOOSE i \in hits : \A j \in hits : i <= j

(***************************************************************************)
(* Environment words and patterns of the classifiers.                      *)
(***************************************************************************)
W_dev == <<"d", "e", "v">>
W_prod == <<"p", "r", "o", "d">>
W_staging == <<"s", "t", "a", "g", "i", "n", "g">>
W_test == <<"t", "e", "s", "t">>
W_qa == <<"q", "a">>
W_uat == <<"u", "a", "t">>
W_preprod == <<"p", "r", "e", "p", "r", "o", "d">>
W_production == <<"p", "r", "o", "d", "u", "c", "t", "i", "o", "n">>
W_unknown == <<"u", "n", "k", "n", "o", "w", "n">>
W_all == <<"a", "l", "l">>

\* env_indicators = ['dev', 'prod', 'staging', 'test', 'qa', 'uat', 'preprod']
env_indicators == <<W_dev, W_prod, W_staging, W_test, W_qa, W_uat, W_preprod>>

dev_patterns == <<<<"-", "d", "e", "v", "-">>, <<".", "d", "e", "v", ".">>, <<"-", "d", "e", "v", "e", "l", "o", "p", "m", "e", "n", "t">>>>
sns_dev_patterns == <<<<"-", "d", "e", "v", "-">>, <<".", "d", "e", "v", ".">>>>
staging_patterns == <<<<"-", "s", "t", "a", "g", "i", "n", "g", "-">>, <<"-", "s", "t", "a", "g", "e", "-">>, <<".", "s", "t", "a", "g", "i", "n", "g", ".">>, <<".", "s", "t", "a", "g", "e", ".">>>>
prod_patterns == <<<<"-", "p", "r", "o", "d", "-">>, <<"-", "p", "r", "o", "d", "u", "c", "t", "i", "o", "n", "-">>, <<".", "p", "r", "o", "d", ".">>, <<".", "p", "r", "o", "d", "u", "c", "t", "i", "o", "n", ".">>>>

(***************************************************************************)
(* The classifiers: the Environment value each auditor writes to the row.  *)
(***************************************************************************)
\* the first part of the name that is an environment indicator, None when
\* there is none: `for part in name_parts: if part in env_indicators`
FirstIndicator(name_parts) ==
    LET i == FirstIdx({j \in 1..Len(name_parts) : InList(name_parts[j], env_indicators)})
    IN IF i = 0 THEN None ELSE name_parts[i]

\* LambdaAuditor.get_environment
get_environment(function_name, t) ==
    LET env_tags == <<"env", "environment", "stage", "deployment">>
        ti == FirstIdx({j \in 1..Len(env_tags) : env_tags[j] \in DOMAIN t})
        name_lower == Lower(function_name)
        envs == <<W_dev, W_staging, W_prod, W_production, W_test, W_qa>>
        InName(env) == \/ Contains(name_lower, <<"-">> \o env)
                       \/ Contains(name_lower, <<"_">> \o env)
        ei == FirstIdx({j \in 1..Len(envs) : InName(envs[j])})
    IN IF ti # 0 THEN Lower(t[env_tags[ti]])
       ELSE IF ei # 0 THEN envs[ei]
       ELSE W_all

\* get_environment_from_name with the name parts consulted before the tags
get_environment_from_name_first(bucket, t) ==
    LET part == FirstIndicator(Split(Lower(bucket), "-"))
        a == Get(t, "environment")
        env == IF Truthy(a) THEN a ELSE Get(t, "Environment")
    IN IF part # None THEN part
       ELSE IF Truthy(env) THEN Lower(env)
       ELSE W_unknown

\* S3Auditor.get_environment_from_name
get_environment_from_name(bucket, t) ==
    LET a == Get(t, "environment")
        env == IF Truthy(a) THEN a ELSE Get(t, "Environment")
        part == FirstIndicator(Split(Lower(bucket), "-"))
    IN IF Truthy(env) THEN Lower(env)
       ELSE IF part # None THEN part
       ELSE IF AnyIn(dev_patterns, Lower(bucket)) THEN W_dev
       ELSE IF AnyIn(staging_patterns, Lower(bucket)) THEN W_staging
       ELSE IF AnyIn(prod_patterns, Lower(bucket)) THEN W_prod
       ELSE W_unknown

\* SNSAuditor.get_all_topics, the environment of a topic
SNS_environment(topic_name, t) ==
    LET fromTag == Lower(GetOr(t, "environment", <<>>))
        part == FirstIndicator(Split(Lower(topic_name), "-"))
    IN IF fromTag = <<>> \/ ~InList(fromTag, env_indicators)
       THEN IF part # None THEN part
            ELSE IF AnyIn(sns_dev_patterns, Lower(topic_name)) THEN W_dev
            ELSE IF AnyIn(staging_patterns, Lower(topic_name)) THEN W_staging
            ELSE IF AnyIn(prod_patterns, Lower(topic_name)) THEN W_prod
            ELSE fromTag
       ELSE fromTag

\* DynamoDBAuditor.get_all_tables, the Environment of a table's row
DynamoDB_environment(table_name) ==
    LET part == FirstIndicator(Split(Lower(table_name), "-"))
    IN Upper(IF part # None THEN part ELSE W_unknown)

\* StepFunctionsAuditor.get_all_state_machines, the Environment of a row
SFN_environment(name) ==
    LET name_parts == Split(name, "-")
        n == Len(name_parts)
    IN Upper(IF n > 1 /\ InList(Lower(name_parts[n]), env_indicators)
             THEN Lower(name_parts[n])
             ELSE IF n > 2 /\ InList(Lower(name_parts[n - 1]), env_indicators)
             THEN Lower(name_parts[n - 1])
             ELSE W_unknown)

\* save_to_excel.get_environment of the SQS auditor
SQS_get_environment(queue_name) ==
    LET parts == Split(queue_name, "-")
    IN IF Len(parts) >= 2 /\ InList(Last(parts), <<W_dev, W_prod, W_staging>>)
       THEN Last(parts)
       ELSE W_unknown

\* the Environment value is written to the row
PutEnvironment(k, v) ==
    /\ kind = k /\ pc = "classify"
    /\ environment' = v
    /\ pc' = "classified"
    /\ UNCHANGED <<bvars, avars, inputs, rvars, resource_name, tags>>

Lambda_classify == PutEnvironment("lambda", get_environment(resource_name, tags))

S3_classify == PutEnvironment("s3", get_environment_from_name(resource_name, tags))

SNS_classify == PutEnvironment("sns", SNS_environment(resource_name, tags))

DynamoDB_classify == PutEnvironment("dynamodb", DynamoDB_environment(resource_name))

SFN_classify == PutEnvironment("sfn", SFN_environment(resource_name))

SQS_classify == PutEnvironment("sqs", SQS_get_environment(resource_name))

(***************************************************************************)
(* The classifiers, each run once on a name and a tag set.                 *)
(***************************************************************************)
W_svc == <<"s", "v", "c">>
W_Dev == <<"D", "e", "v">>
W_Prod == <<"P", "r", "o", "d">>
W_sandbox == <<"s", "a", "n", "d", "b", "o", "x">>
SvcOrdersProd == <<"s", "v", "c", "-", "o", "r", "d", "e", "r", "s", "-", "p", "r", "o", "d">>

ClassifyNames ==
    NamesUpTo(MaxNameSegs, {W_svc, W_prod, W_staging, W_Dev}, {"-", "_", "."})
    \cup { SvcOrdersProd,
           <<"a", ".", "p", "r", "o", "d", ".", "b">>,
           <<"x", "-", "p", "r", "o", "d", "u", "c", "t", "i", "o", "n", "-", "y">>,
           <<"p", "r", "o", "d", "i", "g", "y">> }

ClassifyTags ==
    { NoTags,
      [k \in {"environment"} |-> W_staging],
      [k \in {"environment"} |-> W_Prod],
      [k \in {"environment"} |-> W_sandbox],
      [k \in {"environment"} |-> <<>>],
      [k \in {"Environment"} |-> W_qa],
      [k \in {"ENV"} |-> W_dev],
      [k \in {"env"} |-> W_dev],
      [k \in {"stage"} |-> W_uat],
      [k \in {"env", "environment"} |-> IF k = "env" THEN W_dev ELSE W_staging] }

ClassifyKinds == Kinds \cup {"lambda"}

ClassifyInit ==
    /\ kind \in ClassifyKinds
    /\ resource_name \in ClassifyNames
    /\ tags \in ClassifyTags
    /\ environment = Unset
    /\ pc = "classify"
    /\ resource_arn = <<>>
    /\ queue_url = <<>>
    /\ bucket_name = <<>>
    /\ tagResp = [ok |-> FALSE, Tags |-> NoTags]
    /\ cfResp = <<>>
    /\ listResp = [ok |-> FALSE, StackResourceSummaries |-> <<>>]
    /\ stacks = {}
    /\ cfDown = FALSE
    /\ idx = 1
    /\ calls = <<>>
    /\ stack_name = Unset
    /\ strategy = 0
    /\ raised = FALSE
    /\ row = Unset
    /\ cloudwatch = <<>>
    /\ clients = <<>>
    /\ metrics = <<>>
    /\ rows = <<>>
    /\ NoBatch

ClassifyNext ==
    \/ Lambda_classify
    \/ S3_classify
    \/ SNS_classify
    \/ DynamoDB_classify
    \/ SFN_classify
    \/ SQS_classify

ClassifySpec == ClassifyInit /\ [][ClassifyNext]_vars

(***************************************************************************)
(* Properties of the classifiers.                                          *)
(***************************************************************************)
\* {dev, staging, prod, test, qa, uat, preprod, unknown}
EnvironmentLabels ==
    {W_dev, W_staging, W_prod, W_test, W_qa, W_uat, W_preprod, W_unknown}

\* C9: the Environment value written to the row is always one of dev, staging,
\* prod, test, qa, uat, preprod, unknown.
C9_ClassifyTotal ==
    pc = "classified" => environment \in EnvironmentLabels

\* the name has a hyphen-delimited segment that names an environment other
\* than e
NamesOtherEnv(name, e) ==
    \E i \in 1..Len(Split(name, "-")) :
        /\ Split(name, "-")[i] \in EnvironmentLabels \ {W_unknown}
        /\ Split(name, "-")[i] # e

Classify(k, name, t) ==
    CASE k = "lambda" -> get_environment(name, t)
      [] k = "s3" -> get_environment_from_name(name, t)
      [] k = "sns" -> SNS_environment(name, t)
      [] k = "dynamodb" -> DynamoDB_environment(name)
      [] k = "sfn" -> SFN_environment(name)
      [] k = "sqs" -> SQS_get_environment(name)

\* a tag key in lower case
LowerKey(k) ==
    CASE k = "ENV" -> "env"
      [] k = "Environment" -> "environment"
      [] OTHER -> k

\* the tags of t that are environment tags under a case-insensitive match of
\* the key and whose lowercased value is in the enumerated set
ValidEnvTags(t) ==
    {k \in DOMAIN t : /\ LowerKey(k) \in {"environment", "env", "stage", "deployment"}
                      /\ Lower(t[k]) \in EnvironmentLabels \ {W_unknown}}

\* C11: in the function, bucket and topic classifiers an environment tag under
\* one of the keys environment, env, stage, deployment (in any case) whose
\* lowercased value is in the enumerated set gives the label, and when there
\* is no such tag the label is the one the name alone gives.
C11_TagRule ==
    (pc = "classified" /\ kind \in {"lambda", "s3", "sns"}) =>
        IF ValidEnvTags(tags) # {}
        THEN \E k \in ValidEnvTags(tags) : environment = Lower(tags[k])
        ELSE environment = Classify(kind, resource_name, NoTags)

\* the name with every underscore replaced by a hyphen
HyphenOnly(name) == [i \in 1..Len(name) |-> IF name[i] = "_" THEN "-" ELSE name[i]]

\* the hyphen-delimited and underscore-delimited segments of the name that
\* are members of the enumerated set
EnvSegments(name) ==
    LET parts == Split(HyphenOnly(name), "-")
    IN {parts[i] : i \in {j \in 1..Len(parts) : parts[j] \in EnvironmentLabels \ {W_unknown}}}

\* C12: without tags, a name that has a hyphen-delimited or underscore-delimited
\* segment equal to a member of the enumerated set is given the environment of
\* such a segment (in whatever letter case the row writes it), wherever the
\* segment is in the name.
C12_AnySegment ==
    (pc = "classified" /\ tags = NoTags /\ EnvSegments(resource_name) # {}) =>
        Lower(environment) \in EnvSegments(resource_name)

\* C13: in the function and bucket classifiers, a resource without tags whose
\* name has no segment in the enumerated set is labelled dev, staging, prod or
\* unknown, and it is labelled unknown when its name does not contain dev,
\* stag or prod at all.
C13_SubstringRule ==
    (/\ pc = "classified" /\ kind \in {"lambda", "s3"}
     /\ tags = NoTags /\ EnvSegments(Lower(resource_name)) = {}) =>
        /\ environment \in {W_dev, W_staging, W_prod, W_unknown}
        /\ (~AnyIn(<<W_dev, <<"s", "t", "a", "g">>, W_prod>>, Lower(resource_name)))
               => environment = W_unknown

(***************************************************************************)
(* CloudWatch answers and the metric aggregators.                          *)
(***************************************************************************)
\* most data points a get_metric_statistics response holds
MaxPoints == 2
\* most stages an API has
MaxStages == 3

\* get_metric_statistics: it raises, or returns a list of data points, each
\* carrying the statistic that was asked for
MetricResps ==
    {[ok |-> FALSE, Datapoints |-> <<>>]}
    \cup {[ok |-> TRUE, Datapoints |-> d] : d \in SeqsUpTo({30}, MaxPoints)}

RECURSIVE SumOf(_)
\* sum(points)
SumOf(points) == IF points = <<>> THEN 0 ELSE Head(points) + SumOf(Tail(points))

\* max(points), for a non-empty list
MaxOf(points) ==
    CHOOSE v \in {points[i] : i \in 1..Len(points)} : \A i \in 1..Len(points) : points[i] <= v

\* the get_metric_statistics calls an aggregator made, in order
Queried(names) == [i \in 1..Len(names) |-> [api |-> "get_metric_statistics", arg |-> names[i]]]

\* get_message_count_30d with an empty response counted as a failure
get_message_count_30d_nodata_fails ==
    LET response == cloudwatch["NumberOfMessagesReceived"]
    IN [metrics |-> [MessagesReceived30d |->
                        IF response.ok /\ response.Datapoints # <<>>
                        THEN SumOf(response.Datapoints) ELSE -1],
        queried |-> <<"NumberOfMessagesReceived">>]

\* SQSAuditor.get_message_count_30d
get_message_count_30d ==
    LET response == cloudwatch["NumberOfMessagesReceived"]
    IN [metrics |-> [MessagesReceived30d |->
                        IF ~response.ok THEN -1
                        ELSE IF response.Datapoints # <<>> THEN SumOf(response.Datapoints)
                        ELSE 0],
        queried |-> <<"NumberOfMessagesReceived">>]

\* DynamoDBAuditor.get_table_metrics_30d
get_table_metrics_30d ==
    LET read == cloudwatch["ConsumedReadCapacityUnits"]
        write == cloudwatch["ConsumedWriteCapacityUnits"]
        size == clients["describe_table_size"]
        PerDay(response) == IF response.Datapoints # <<>>
                            THEN SumOf(response.Datapoints) \div 30 ELSE 0
        failed == [AvgDailyReadUnits |-> -1, AvgDailyWriteUnits |-> -1,
                   ItemCount |-> -1, TableSizeBytes |-> -1]
    IN IF ~read.ok
       THEN [metrics |-> failed, queried |-> <<"ConsumedReadCapacityUnits">>]
       ELSE IF ~write.ok
       THEN [metrics |-> failed,
             queried |-> <<"ConsumedReadCapacityUnits", "ConsumedWriteCapacityUnits">>]
       ELSE [metrics |-> [AvgDailyReadUnits |-> PerDay(read),
                          AvgDailyWriteUnits |-> PerDay(write),
                          ItemCount |-> IF size.ok THEN GetOr(size.resp, "ItemCount", 0) ELSE -1,
                          TableSizeBytes |-> IF size.ok THEN GetOr(size.resp, "TableSizeBytes", 0) ELSE -1],
             queried |-> <<"ConsumedReadCapacityUnits", "ConsumedWriteCapacityUnits">>]

\* StepFunctionsAuditor.get_execution_metrics_30d
get_execution_metrics_30d ==
    LET started == cloudwatch["ExecutionsStarted"]
        time == cloudwatch["ExecutionTime"]
        failed == [ExecutionsStarted |-> -1, AvgExecutionTimeMs |-> -1]
    IN IF ~started.ok
       THEN [metrics |-> failed, queried |-> <<"ExecutionsStarted">>]
       ELSE IF ~time.ok
       THEN [metrics |-> failed, queried |-> <<"ExecutionsStarted", "ExecutionTime">>]
       ELSE [metrics |-> [ExecutionsStarted |-> SumOf(started.Datapoints),
                          AvgExecutionTimeMs |->
                              IF time.Datapoints # <<>>
                              THEN SumOf(time.Datapoints) \div Len(time.Datapoints)
                              ELSE 0],
             queried |-> <<"ExecutionsStarted", "ExecutionTime">>]

\* the periods of LambdaAuditor.get_invocation_metrics
periods == <<"last_month", "last_3_months", "last_year">>

\* LambdaAuditor.get_invocation_metrics
get_invocation_metrics ==
    LET Total(period_name) ==
            IF cloudwatch[period_name].ok THEN SumOf(cloudwatch[period_name].Datapoints) ELSE 0
    IN [metrics |-> [invocations_last_month |-> Total("last_month"),
                     invocations_last_3_months |-> Total("last_3_months"),
                     invocations_last_year |-> Total("last_year")],
        queried |-> periods]

\* SNSAuditor.get_topic_metrics_30d
get_topic_metrics_30d ==
    LET response == cloudwatch["NumberOfMessagesPublished"]
        total_messages == SumOf(response.Datapoints)
    IN [metrics |-> IF ~response.ok
                    THEN [AvgDailyMessages |-> 0, TotalMessages30d |-> 0]
                    ELSE [AvgDailyMessages |-> IF response.Datapoints # <<>>
                                               THEN total_messages \div 30 ELSE 0,
                          TotalMessages30d |-> total_messages],
        queried |-> <<"NumberOfMessagesPublished">>]

\* the metrics of S3Auditor.get_bucket_metrics_30d whose statistic is Average
size_metrics == <<"BucketSizeBytes", "NumberOfObjects">>
req_metrics == <<"AllRequests", "GetRequests", "PutRequests", "DeleteRequests", "HeadRequests", "PostRequests", "ListRequests", "4xxErrors", "5xxErrors">>
transfer_metrics == <<"BytesDownloaded", "BytesUploaded">>

\* S3Auditor.get_bucket_metrics_30d
get_bucket_metrics_30d ==
    LET names == size_metrics \o req_metrics \o transfer_metrics
        Value(metric) ==
            LET response == cloudwatch[metric]
            IN IF response.ok /\ response.Datapoints # <<>>
               THEN IF InList(metric, size_metrics)
                    THEN MaxOf(response.Datapoints)
                    ELSE SumOf(response.Datapoints)
               ELSE 0
    IN [metrics |-> [metric \in {names[i] : i \in 1..Len(names)} |-> Value(metric)],
        queried |-> names]

RECURSIVE StageRequests(_)
\* the total_requests get_api_metrics_30d adds up over the stages: a stage
\* whose query raises or has no data points adds nothing
StageRequests(stage_names) ==
    IF stage_names = <<>> THEN 0
    ELSE LET response == cloudwatch[Head(stage_names)]
         IN (IF response.ok /\ response.Datapoints # <<>>
             THEN SumOf(response.Datapoints) ELSE 0)
            + StageRequests(Tail(stage_names))

\* the stages get_api_metrics_30d queries when the loop over the stages ends
\* at the first stage whose query raises
RECURSIVE UntilFailure(_)
UntilFailure(stage_names) ==
    IF stage_names = <<>> THEN <<>>
    ELSE IF ~cloudwatch[Head(stage_names)].ok THEN <<Head(stage_names)>>
    ELSE <<Head(stage_names)>> \o UntilFailure(Tail(stage_names))

\* get_api_metrics_30d with `break` in place of `continue`
get_api_metrics_30d_break(api_type) ==
    LET discovered == clients["metrics_get_api"].ok /\ clients["metrics_get_stages"].ok
        stage_names == UntilFailure(clients["metrics_get_stages"].resp)
    IN IF ~discovered
       THEN [metrics |-> [TotalRequests |-> 0], queried |-> <<>>]
       ELSE [metrics |-> [TotalRequests |-> StageRequests(stage_names)],
             queried |-> stage_names]

\* get_api_metrics_30d returning -1 when no stage's query answered
get_api_metrics_30d_sentinel(api_type) ==
    LET discovered == clients["metrics_get_api"].ok /\ clients["metrics_get_stages"].ok
        stage_names == clients["metrics_get_stages"].resp
    IN IF ~discovered
       THEN [metrics |-> [TotalRequests |-> 0], queried |-> <<>>]
       ELSE IF stage_names # <<>> /\ \A i \in 1..Len(stage_names) : ~cloudwatch[stage_names[i]].ok
       THEN [metrics |-> [TotalRequests |-> -1], queried |-> stage_names]
       ELSE [metrics |-> [TotalRequests |-> StageRequests(stage_names)],
             queried |-> stage_names]

\* APIGatewayAuditor.get_api_metrics_30d, for api_type 'REST' (get_rest_api,
\* get_stages) and 'HTTP' (get_api, get_stages)
get_api_metrics_30d(api_type) ==
    LET discovered == clients["metrics_get_api"].ok /\ clients["metrics_get_stages"].ok
        stage_names == clients["metrics_get_stages"].resp
    IN IF ~discovered
       THEN [metrics |-> [TotalRequests |-> 0], queried |-> <<>>]
       ELSE [metrics |-> [TotalRequests |-> StageRequests(stage_names)],
             queried |-> stage_names]

(***************************************************************************)
(* The row builders: one resource is enriched and its row appended.        *)
(***************************************************************************)
\* a client call that returned, and one that raised
Answered(r) == [ok |-> TRUE, resp |-> r]
Failed == [ok |-> FALSE, resp |-> <<>>]

\* texts the row builders write
NoneText == <<"N", "o", "n", "e">>
NotAvailable == <<"N/A">>
ErrorText == <<"Error">>
ErrorDetails == <<"Error retrieving details">>
ErrorTags == <<"Error retrieving tags">>
UnknownText == <<"Unknown">>

\* the tag set a tag helper hands back: {} when the accessor raised
TagsFetched == IF tagResp.ok THEN tagResp.Tags ELSE NoTags

RECURSIVE TagPairs(_, _)
\* [f"{k}={v}" for k, v in tags.items()]
TagPairs(t, keys) ==
    IF keys = {} THEN <<>>
    ELSE LET k == CHOOSE x \in keys : TRUE
         IN <<<<k, "=">> \o t[k]>> \o TagPairs(t, keys \ {k})

\* ', '.join([f"{k}={v}" for k, v in tags.items()])
TagString(t) == Join(TagPairs(t, DOMAIN t), <<",", " ">>)

\* ', '.join([...]) if tags else 'None'
TagStringOrNone(t) == IF DOMAIN t # {} THEN TagString(t) ELSE NoneText

\* StagesField with 'Error' for an API without stages
StagesField_error(stage_names) ==
    IF stage_names # <<>>
    THEN Join([i \in 1..Len(stage_names) |-> <<stage_names[i]>>], <<",">>)
    ELSE ErrorText

\* ','.join(stage_names) if stage_names else 'None'
StagesField(stage_names) ==
    IF stage_names # <<>>
    THEN Join([i \in 1..Len(stage_names) |-> <<stage_names[i]>>], <<",">>)
    ELSE NoneText

\* LambdaAuditor.get_stack_name
get_stack_name(t) ==
    LET stack_tags == <<StackKey, "cloudformation:stack-name", "stack-name">>
        i == FirstIdx({j \in 1..Len(stack_tags) : stack_tags[j] \in DOMAIN t})
    IN IF i # 0 THEN t[stack_tags[i]] ELSE <<>>

\* the calls a row builder makes before it asks for the metrics; when one of
\* them raises out of the builder's try block the resource is left
Fetch(k, ok, t, lost) ==
    /\ kind = k /\ pc = "fetch"
    /\ tags' = t
    /\ IF ok THEN pc' = "metrics" /\ UNCHANGED rows
       ELSE pc' = "done" /\ rows' = rows \o lost
    /\ UNCHANGED <<bvars, inputs, cloudwatch, clients, metrics, rvars, resource_name, environment>>

\* the row builder calls its aggregator
Aggregate(k, at, result) ==
    /\ kind = k /\ pc = at
    /\ metrics' = result.metrics
    /\ calls' = calls \o Queried(result.queried)
    /\ pc' = "build"
    /\ UNCHANGED <<bvars, inputs, cloudwatch, clients, rows, idx, stack_name, strategy, raised, row, cvars>>

\* the rest of the row builder's try block: the row is appended, or the
\* handler of the exception runs
Build(k, ok, t, built, lost) ==
    /\ kind = k /\ pc = "build"
    /\ tags' = t
    /\ rows' = rows \o (IF ok THEN <<built>> ELSE lost)
    /\ pc' = "done"
    /\ UNCHANGED <<bvars, inputs, cloudwatch, clients, metrics, rvars, resource_name, environment>>

\* SQSAuditor.get_all_queues
get_all_queues_fetch == Fetch("sqs", TRUE, TagsFetched, <<>>)

get_all_queues_metrics == Aggregate("sqs", "metrics", get_message_count_30d)

get_all_queues_build ==
    LET attributes == (IF clients["get_queue_attributes"].ok
                       THEN [QueueArn |-> SQSArn] ELSE <<>>)
                      @@ [MessagesReceived30d |-> metrics.MessagesReceived30d]
        queue_arn == GetOr(attributes, "QueueArn", <<>>)
    IN Build("sqs", TRUE, tags,
             attributes
             @@ [QueueName |-> resource_name,
                 StackName |-> IF Truthy(queue_arn) THEN stack_name ELSE <<>>,
                 Tags |-> TagStringOrNone(tags)],
             <<>>)

\* DynamoDBAuditor.get_all_tables
get_all_tables_fetch == Fetch("dynamodb", clients["describe_table"].ok, tags, <<>>)

get_all_tables_metrics == Aggregate("dynamodb", "metrics", get_table_metrics_30d)

get_all_tables_build ==
    Build("dynamodb", TRUE, TagsFetched,
          [TableName |-> resource_name,
           Environment |-> DynamoDB_environment(resource_name),
           StackName |-> PlainStackNameField(stack_name),
           ItemCount |-> metrics.ItemCount,
           TableSizeBytes |-> metrics.TableSizeBytes,
           AvgDailyReadUnits |-> metrics.AvgDailyReadUnits,
           AvgDailyWriteUnits |-> metrics.AvgDailyWriteUnits,
           Tags |-> TagStringOrNone(TagsFetched)],
          <<>>)

\* StepFunctionsAuditor.get_all_state_machines
get_all_state_machines_fetch ==
    Fetch("sfn", clients["describe_state_machine"].ok, tags, <<>>)

get_all_state_machines_metrics == Aggregate("sfn", "metrics", get_execution_metrics_30d)

get_all_state_machines_build ==
    Build("sfn", TRUE, TagsFetched,
          [Name |-> resource_name,
           Environment |-> SFN_environment(resource_name),
           ExecutionsStarted30d |-> metrics.ExecutionsStarted,
           AvgExecutionTimeMs |-> metrics.AvgExecutionTimeMs,
           Tags |-> TagStringOrNone(TagsFetched),
           StackName |-> SFN_StackNameField(stack_name)],
          <<>>)

\* LambdaAuditor.audit_functions
audit_functions_fetch == Fetch("lambda", TRUE, TagsFetched, <<>>)

audit_functions_metrics == Aggregate("lambda", "metrics", get_invocation_metrics)

audit_functions_build ==
    Build("lambda", TRUE, tags,
          [FunctionName |-> resource_name,
           Environment |-> get_environment(resource_name, tags),
           StackName |-> get_stack_name(tags),
           UpdateDates |-> IF clients["list_versions_by_function"].ok
                           THEN clients["list_versions_by_function"].resp
                           ELSE NotAvailable]
          @@ metrics,
          <<>>)

\* SNSAuditor.get_all_topics
get_all_topics_fetch == Fetch("sns", tagResp.ok, TagsFetched, <<>>)

get_all_topics_metrics == Aggregate("sns", "metrics", get_topic_metrics_30d)

get_all_topics_build ==
    Build("sns", TRUE, tags,
          [TopicName |-> resource_name,
           Environment |-> SNS_environment(resource_name, tags),
           StackName |-> PlainStackNameField(stack_name),
           SubscriptionsCount |-> IF clients["list_subscriptions_by_topic"].ok
                                  THEN Len(clients["list_subscriptions_by_topic"].resp)
                                  ELSE 0,
           Tags |-> TagString(tags)]
          @@ metrics,
          <<>>)

\* S3Auditor.get_all_buckets
get_all_buckets_fetch ==
    Fetch("s3", clients["get_bucket_location"].ok, TagsFetched, <<>>)

get_all_buckets_metrics == Aggregate("s3", "metrics", get_bucket_metrics_30d)

get_all_buckets_build ==
    Build("s3", TRUE, tags,
          [BucketName |-> resource_name,
           Environment |-> get_environment_from_name(resource_name, tags),
           StackName |-> PlainStackNameField(stack_name),
           Versioning |-> IF clients["get_bucket_versioning"].ok
                          THEN <<"Enabled">> ELSE ErrorText,
           Encryption |-> IF clients["get_bucket_encryption"].ok
                          THEN <<"AES256">> ELSE UnknownText,
           Logging |-> IF clients["get_bucket_logging"].ok
                       THEN <<"Enabled">> ELSE <<"Disabled">>,
           PublicAccess |-> IF clients["get_bucket_policy_status"].ok /\ clients["get_bucket_acl"].ok
                            THEN <<"Private">> ELSE UnknownText,
           SizeBytes |-> metrics["BucketSizeBytes"],
           ObjectCount |-> metrics["NumberOfObjects"],
           TotalRequests |-> metrics["AllRequests"],
           GetRequests |-> metrics["GetRequests"],
           PutRequests |-> metrics["PutRequests"],
           Tags |-> TagString(tags)],
          <<>>)

\* the row the API builders append when the details of an API cannot be read
ErrorRow(type) ==
    [Name |-> resource_name,
     Type |-> type,
     Description |-> ErrorDetails,
     Stages |-> ErrorText,
     TotalRequests30d |-> -1,
     AvgLatencyMs |-> -1,
     Tags |-> ErrorTags]

\* the row the API builders append for an API whose details were read
ApiRow(type) ==
    [Name |-> resource_name,
     Type |-> type,
     Description |-> <<>>,
     Stages |-> StagesField(clients["get_stages"].resp),
     TotalRequests30d |-> metrics.TotalRequests,
     StackName |-> GetOr(TagsFetched, StackKey, <<>>),
     Tags |-> TagStringOrNone(TagsFetched)]

\* APIGatewayAuditor.get_rest_apis
get_rest_apis_fetch ==
    Fetch("rest", clients["get_api"].ok, tags, <<ErrorRow(<<"REST">>)>>)

get_rest_apis_metrics == Aggregate("rest", "metrics", get_api_metrics_30d("REST"))

get_rest_apis_build ==
    Build("rest",
          clients["get_resources"].ok /\ clients["get_stages"].ok /\ tagResp.ok,
          TagsFetched, ApiRow(<<"REST">>), <<ErrorRow(<<"REST">>)>>)

\* APIGatewayAuditor.get_http_apis
get_http_apis_metrics == Aggregate("http", "fetch", get_api_metrics_30d("HTTP"))

get_http_apis_build ==
    Build("http",
          /\ clients["get_api"].ok /\ clients["get_integrations"].ok
          /\ clients["get_stages"].ok /\ tagResp.ok,
          TagsFetched, ApiRow(<<"HTTP">>), <<ErrorRow(<<"HTTP">>)>>)

(***************************************************************************)
(* One resource of each kind, and the answers of the accessors, chosen at  *)
(* the start.                                                              *)
(***************************************************************************)
AuditKinds == {"sqs", "dynamodb", "sfn", "lambda", "sns", "s3", "rest", "http"}

\* the stages of an API, as get_stages lists them
AllStages == <<"s1", "s2", "s3", "s4">>
StageLists == {SubSeq(AllStages, 1, n) : n \in 0..MaxStages}

\* the elements of a list
Range(l) == {l[i] : i \in 1..Len(l)}

\* the answers to the metric queries of a bucket: every query answers alike,
\* but for at most one of them
BucketMetricResps ==
    LET names == Range(size_metrics \o req_metrics \o transfer_metrics)
        usual == {[ok |-> FALSE, Datapoints |-> <<>>],
                  [ok |-> TRUE, Datapoints |-> <<>>],
                  [ok |-> TRUE, Datapoints |-> <<30>>]}
    IN {[m \in names |-> IF m = odd THEN r ELSE u] :
            u \in usual, odd \in names, r \in MetricResps}

\* the answers get_metric_statistics may give to the queries of a resource
CloudWatchResps(k, stage_names) ==
    CASE k = "sqs" -> [{"NumberOfMessagesReceived"} -> MetricResps]
      [] k = "dynamodb" -> [{"ConsumedReadCapacityUnits", "ConsumedWriteCapacityUnits"} -> MetricResps]
      [] k = "sfn" -> [{"ExecutionsStarted", "ExecutionTime"} -> MetricResps]
      [] k = "lambda" -> [Range(periods) -> MetricResps]
      [] k = "sns" -> [{"NumberOfMessagesPublished"} -> MetricResps]
      [] k = "s3" -> BucketMetricResps
      [] k \in {"rest", "http"} -> [Range(stage_names) -> MetricResps]

\* a client call that raises or returns r
MayFail(r) == {Failed, Answered(r)}

\* the answers the other client calls of a row builder may give
ClientResps(k, stage_names) ==
    CASE k = "sqs" -> [{"get_queue_attributes"} -> MayFail(<<>>)]
      [] k = "dynamodb" ->
            {[n \in {"describe_table", "describe_table_size"} |->
                 IF n = "describe_table" THEN a ELSE b] :
                 a \in MayFail(<<>>),
                 b \in {Failed, Answered(<<>>),
                        Answered([ItemCount |-> 30, TableSizeBytes |-> 60])}}
      [] k = "sfn" -> [{"describe_state_machine"} -> MayFail(<<>>)]
      [] k = "lambda" -> [{"list_versions_by_function"} -> MayFail(<<"2024-01-01">>)]
      [] k = "sns" -> [{"get_topic_attributes", "list_subscriptions_by_topic"} -> MayFail(<<>>)]
      [] k = "s3" -> [{"get_bucket_location", "get_bucket_versioning", "get_bucket_encryption",
                       "get_bucket_logging", "get_bucket_policy_status", "get_bucket_acl"}
                      -> MayFail(<<>>)]
      [] k = "rest" -> [{"get_api", "metrics_get_api", "metrics_get_stages",
                         "get_resources", "get_stages"} -> MayFail(stage_names)]
      [] k = "http" -> [{"get_api", "metrics_get_api", "metrics_get_stages",
                         "get_integrations", "get_stages"} -> MayFail(stage_names)]

\* what the resolver of the kind may have returned for the resource
ResolverReturns(k) ==
    CASE k = "sfn" -> {None, StackB}
      [] k \in {"lambda", "rest", "http"} -> {<<>>}
      [] OTHER -> {<<>>, StackB}

AuditInit ==
    /\ kind \in AuditKinds
    /\ resource_name = SvcOrdersProd
    /\ tagResp \in {[ok |-> FALSE, Tags |-> NoTags],
                    [ok |-> TRUE, Tags |-> NoTags],
                    [ok |-> TRUE, Tags |-> [k \in {StackKey} |-> StackA]]}
    /\ \E stage_names \in IF kind \in {"rest", "http"} THEN StageLists ELSE {<<>>} :
          /\ cloudwatch \in CloudWatchResps(kind, stage_names)
          /\ clients \in ClientResps(kind, stage_names)
    /\ stack_name \in ResolverReturns(kind)
    /\ pc = "fetch"
    /\ metrics = <<>>
    /\ rows = <<>>
    /\ NoBatch
    /\ calls = <<>>
    /\ tags = NoTags
    /\ environment = Unset
    /\ resource_arn = <<>>
    /\ queue_url = <<>>
    /\ bucket_name = <<>>
    /\ cfResp = <<>>
    /\ listResp = [ok |-> FALSE, StackResourceSummaries |-> <<>>]
    /\ stacks = {}
    /\ cfDown = FALSE
    /\ idx = 1
    /\ strategy = 0
    /\ raised = FALSE
    /\ row = Unset

AuditNext ==
    \/ get_all_queues_fetch
    \/ get_all_queues_metrics
    \/ get_all_queues_build
    \/ get_all_tables_fetch
    \/ get_all_tables_metrics
    \/ get_all_tables_build
    \/ get_all_state_machines_fetch
    \/ get_all_state_machines_metrics
    \/ get_all_state_machines_build
    \/ audit_functions_fetch
    \/ audit_functions_metrics
    \/ audit_functions_build
    \/ get_all_topics_fetch
    \/ get_all_topics_metrics
    \/ get_all_topics_build
    \/ get_all_buckets_fetch
    \/ get_all_buckets_metrics
    \/ get_all_buckets_build
    \/ get_rest_apis_fetch
    \/ get_rest_apis_metrics
    \/ get_rest_apis_build
    \/ get_http_apis_metrics
    \/ get_http_apis_build

AuditSpec == AuditInit /\ [][AuditNext]_vars

(***************************************************************************)
(* Properties of the aggregators and the row builders.                     *)
(***************************************************************************)
\* the aggregator of the resource has returned
Aggregated == DOMAIN metrics # {}

\* the metric query behind each value an aggregator returns from one
\* get_metric_statistics call
MetricQuery(k) ==
    CASE k = "sqs" -> [MessagesReceived30d |-> "NumberOfMessagesReceived"]
      [] k = "dynamodb" -> [AvgDailyReadUnits |-> "ConsumedReadCapacityUnits",
                            AvgDailyWriteUnits |-> "ConsumedWriteCapacityUnits"]
      [] k = "sfn" -> [ExecutionsStarted |-> "ExecutionsStarted",
                       AvgExecutionTimeMs |-> "ExecutionTime"]
      [] k = "lambda" -> [invocations_last_month |-> "last_month",
                          invocations_last_3_months |-> "last_3_months",
                          invocations_last_year |-> "last_year"]
      [] k = "sns" -> [AvgDailyMessages |-> "NumberOfMessagesPublished",
                       TotalMessages30d |-> "NumberOfMessagesPublished"]
      [] k = "s3" -> [m \in Range(size_metrics \o req_metrics \o transfer_metrics) |-> m]
      [] OTHER -> <<>>

\* the answer to the query behind the value f
QueryOf(f) == cloudwatch[MetricQuery(kind)[f]]

\* a metric query of the resource raised
SomeQueryRaised == \E q \in DOMAIN cloudwatch : ~cloudwatch[q].ok

\* C14 as stated: a value whose metric query answered without a data point
\* is 0.
C14_NoDataIsZero ==
    Aggregated =>
        \A f \in DOMAIN MetricQuery(kind) :
            (QueryOf(f).ok /\ QueryOf(f).Datapoints = <<>>) => metrics[f] = 0

\* C14, case by case: a value whose metric query answered without a data
\* point is 0 in every aggregator as long as no query of the resource raised;
\* in the table and the state machine aggregator a raise of the other query
\* turns it to -1.
C14_NoDataIsZeroUnlessAborted ==
    Aggregated =>
        \A f \in DOMAIN MetricQuery(kind) :
            (QueryOf(f).ok /\ QueryOf(f).Datapoints = <<>>) =>
                IF kind \in {"dynamodb", "sfn"} /\ SomeQueryRaised
                THEN metrics[f] = -1
                ELSE metrics[f] = 0

\* C14 witness: the row of a queue whose metric query answered without a
\* data point holds 0 messages.
C14_Witness ==
    /\ kind = "sqs" /\ pc = "done"
    /\ cloudwatch["NumberOfMessagesReceived"] = [ok |-> TRUE, Datapoints |-> <<>>]
    /\ Len(rows) = 1 /\ rows[1].MessagesReceived30d = 0

\* C15: a value whose metric query raised is -1.
C15_FailureIsSentinel ==
    Aggregated =>
        \A f \in DOMAIN MetricQuery(kind) : ~QueryOf(f).ok => metrics[f] = -1

\* C16: when a metric query of a resource raises, the value of that query is
\* -1 and every value whose own query answered is not: it is 0 when the
\* answer has no data point and positive when it has one.
C16_FailureIsolated ==
    (Aggregated /\ SomeQueryRaised) =>
        \A f \in DOMAIN MetricQuery(kind) :
            IF ~QueryOf(f).ok THEN metrics[f] = -1
            ELSE IF QueryOf(f).Datapoints = <<>> THEN metrics[f] = 0
            ELSE metrics[f] > 0

\* the stage discovery of get_api_metrics_30d succeeded
Discovered == clients["metrics_get_api"].ok /\ clients["metrics_get_stages"].ok

\* C17: when the stage discovery of an API fails, the aggregator returns -1
\* and makes no metric query.
C17_DiscoveryFailure ==
    (kind \in {"rest", "http"} /\ Aggregated /\ ~Discovered) =>
        metrics.TotalRequests = -1 /\ calls = <<>>

RECURSIVE SucceededSum(_)
\* the sum of the data points of the stages whose query answered
SucceededSum(stage_names) ==
    IF stage_names = <<>> THEN 0
    ELSE (IF cloudwatch[Head(stage_names)].ok
          THEN SumOf(cloudwatch[Head(stage_names)].Datapoints) ELSE 0)
         + SucceededSum(Tail(stage_names))

\* C18: when the stage discovery succeeds and the metric query raises for
\* some of the stages and answers for others, TotalRequests is the sum over
\* the stages whose query answered, it is not -1, and every stage was
\* queried, in the order of the discovery.
C18_PartialFanOut ==
    (/\ kind \in {"rest", "http"} /\ Aggregated /\ Discovered
     /\ \E s \in DOMAIN cloudwatch : ~cloudwatch[s].ok
     /\ \E s \in DOMAIN cloudwatch : cloudwatch[s].ok) =>
        /\ metrics.TotalRequests = SucceededSum(clients["metrics_get_stages"].resp)
        /\ metrics.TotalRequests # -1
        /\ calls = Queried(clients["metrics_get_stages"].resp)

\* C18 witness: a REST API with stages s1, s2, s3 whose queries give 30, a
\* failure and 60: the total is 90 and s3 was queried after the failure.
C18_Witness ==
    /\ kind = "rest" /\ Aggregated /\ Discovered
    /\ clients["metrics_get_stages"].resp = <<"s1", "s2", "s3">>
    /\ cloudwatch["s1"] = [ok |-> TRUE, Datapoints |-> <<30>>]
    /\ ~cloudwatch["s2"].ok
    /\ cloudwatch["s3"] = [ok |-> TRUE, Datapoints |-> <<30, 30>>]
    /\ metrics.TotalRequests = 90
    /\ Len(calls) = 3 /\ calls[3].arg = "s3"

\* the fields of a row that hold a number
NumberFields ==
    {"MessagesReceived30d", "ItemCount", "TableSizeBytes", "AvgDailyReadUnits",
     "AvgDailyWriteUnits", "ExecutionsStarted30d", "AvgExecutionTimeMs",
     "invocations_last_month", "invocations_last_3_months", "invocations_last_year",
     "AvgDailyMessages", "TotalMessages30d", "SubscriptionsCount", "SizeBytes",
     "ObjectCount", "TotalRequests", "GetRequests", "PutRequests",
     "TotalRequests30d", "AvgLatencyMs"}

\* the fields of a row that hold an aggregated metric
MetricFields == NumberFields \ {"SubscriptionsCount"}

\* every call the row builder makes for the resource raises
AllFail ==
    /\ ~tagResp.ok
    /\ \A c \in DOMAIN clients : ~clients[c].ok
    /\ \A q \in DOMAIN cloudwatch : ~cloudwatch[q].ok

\* every call the row builder makes for the resource returns
AllSucceed ==
    /\ tagResp.ok
    /\ \A c \in DOMAIN clients : clients[c].ok
    /\ \A q \in DOMAIN cloudwatch : cloudwatch[q].ok

\* C19: when every call made for a resource raises, the builder still
\* appends a row for it and every metric field of the row is -1.
C19_AllFailRow ==
    (pc = "done" /\ AllFail) =>
        /\ Len(rows) = 1
        /\ \A f \in DOMAIN rows[1] \cap MetricFields : rows[1][f] = -1

\* the texts that mark an error in a row
ErrorMarkers == {ErrorText, ErrorDetails, ErrorTags}

\* C20: when every call made for a resource returns, the builder appends a
\* row for it in which no number is -1 and no text is an error marker.
C20_AllSucceedRow ==
    (pc = "done" /\ AllSucceed) =>
        /\ Len(rows) = 1
        /\ \A f \in DOMAIN rows[1] :
              IF f \in NumberFields THEN rows[1][f] # -1
              ELSE rows[1][f] \notin ErrorMarkers

\* C20 witness: the row of a REST API with stages s1, s2 whose calls all
\* returned, with 30 requests on each stage.
C20_Witness ==
    /\ kind = "rest" /\ pc = "done" /\ AllSucceed
    /\ clients["get_stages"].resp = <<"s1", "s2">>
    /\ cloudwatch["s1"].Datapoints = <<30>> /\ cloudwatch["s2"].Datapoints = <<30>>
    /\ Len(rows) = 1 /\ rows[1].TotalRequests30d = 60
    /\ rows[1].Stages = <<"s1", ",", "s2">>

(***************************************************************************)
(* The reserved tag with an empty value.                                   *)
(***************************************************************************)
\* the tag accessor returned the reserved key with the value ''
EmptyStackTag == TagPresent /\ tagResp.Tags[StackKey] = <<>>

\* C26: when the reserved tag is present with an empty value, the resolver
\* does not return from the tag block: once it has left the block it is at
\* the physical-identifier lookup or has made that lookup as its second call,
\* and the value it returns is not the tag block's.
C26_EmptyTagIsMiss ==
    (EmptyStackTag /\ pc # "tags") =>
        /\ strategy # 1
        /\ \/ pc = "physical"
           \/ /\ Len(calls) >= 2
              /\ calls[2].api \in {"describe_stack_resources", "list_stack_resources"}

\* the four resolvers that test the tag value for truth do go on to the lookup
C26_EmptyTagIsMissByArn ==
    (kind # "s3") => C26_EmptyTagIsMiss

(***************************************************************************)
(* Columns of the rows, and the fan-out whose stages all fail.             *)
(***************************************************************************)
\* the columns of the row a builder appends for a resource whose calls all
\* returned
FullColumns(k) ==
    CASE k = "sqs" -> {"QueueName", "StackName", "QueueArn", "MessagesReceived30d", "Tags"}
      [] k = "dynamodb" -> {"TableName", "Environment", "StackName", "ItemCount",
                            "TableSizeBytes", "AvgDailyReadUnits", "AvgDailyWriteUnits", "Tags"}
      [] k = "sfn" -> {"Name", "Environment", "ExecutionsStarted30d", "AvgExecutionTimeMs",
                       "Tags", "StackName"}
      [] k = "lambda" -> {"FunctionName", "Environment", "StackName", "UpdateDates",
                          "invocations_last_month", "invocations_last_3_months",
                          "invocations_last_year"}
      [] k = "sns" -> {"TopicName", "Environment", "StackName", "SubscriptionsCount", "Tags",
                       "AvgDailyMessages", "TotalMessages30d"}
      [] k = "s3" -> {"BucketName", "Environment", "StackName", "Versioning", "Encryption",
                      "Logging", "PublicAccess", "SizeBytes", "ObjectCount", "TotalRequests",
                      "GetRequests", "PutRequests", "Tags"}
      [] k \in {"rest", "http"} -> {"Name", "Type", "Description", "Stages",
                                    "TotalRequests30d", "StackName", "Tags"}

\* C24: every row a builder appends for a resource of a kind has the columns
\* of the kind, error rows and rows of resources with missing attributes
\* included.
C24_FixedColumns ==
    \A i \in 1..Len(rows) : DOMAIN rows[i] = FullColumns(kind)

\* the rows of the builders that write a literal row have the columns of the
\* kind whatever fails
C24_FixedColumnsOfLiteralRows ==
    (kind \notin {"sqs", "rest", "http"}) => C24_FixedColumns

\* C29: when the stage discovery succeeds with at least one stage and the
\* metric query raises for every stage, TotalRequests is 0, the value of an
\* API whose stages answer without a data point, and not -1.
C29_AllStagesFail ==
    (/\ kind \in {"rest", "http"} /\ Aggregated /\ Discovered
     /\ clients["metrics_get_stages"].resp # <<>>
     /\ \A s \in DOMAIN cloudwatch : ~cloudwatch[s].ok) =>
        /\ metrics.TotalRequests = 0
        /\ metrics.TotalRequests # -1
        /\ calls = Queried(clients["metrics_get_stages"].resp)

\* C29 witness: the row of an HTTP API with stages s1, s2 whose queries both
\* raised shows 0 requests.
C29_Witness ==
    /\ kind = "http" /\ pc = "done" /\ Discovered
    /\ clients["metrics_get_stages"].resp = <<"s1", "s2">>
    /\ ~cloudwatch["s1"].ok /\ ~cloudwatch["s2"].ok
    /\ Len(calls) = 2
    /\ Len(rows) = 1 /\ rows[1].TotalRequests30d = 0

(***************************************************************************)
(* The StackName and Tags fields of one row: the row builder fetches the   *)
(* tags of the resource with its own call of the tag accessor, and the     *)
(* resolver calls the accessor again.                                      *)
(***************************************************************************)
\* the Tags field: S3 and SNS join the pairs, the others write 'None' for an
\* empty tag set
TagsField(k, t) == IF k \in {"s3", "sns"} THEN TagString(t) ELSE TagStringOrNone(t)

\* the row is appended with the StackName field and the serialized tags
append_row ==
    /\ pc = "row"
    /\ rows' = Append(rows, [StackName |-> row, Tags |-> TagsField(kind, tags)])
    /\ pc' = "appended"
    /\ UNCHANGED <<bvars, inputs, cloudwatch, clients, metrics, rvars, cvars>>

\* as ResolveInit, with the tag set the row builder's own call fetched: the
\* tag set of the resource, which is the one the resolver's call returns when
\* it does not raise, or {} when the builder's call raised
AgreeInit ==
    /\ kind \in Kinds
    /\ resource_arn \in CASE kind = "dynamodb" -> {DynamoDBArn}
                          [] kind = "sns" -> {SNSArn}
                          [] kind = "sfn" -> {SFNArn}
                          [] kind = "sqs" -> {SQSArn, ShortArn}
                          [] kind = "s3" -> {<<>>}
    /\ queue_url \in IF kind = "sqs" THEN {<<>>, SQSUrl} ELSE {<<>>}
    /\ bucket_name \in IF kind = "s3" THEN BucketNames ELSE {<<>>}
    /\ tagResp \in TagResps
    /\ cfResp \in CASE kind = "sqs" -> [1..3 -> LookupResps]
                    [] kind = "s3" -> {<<>>}
                    [] OTHER -> [1..1 -> LookupResps]
    /\ listResp \in IF kind = "s3" THEN ListResps(bucket_name)
                    ELSE {[ok |-> FALSE, StackResourceSummaries |-> <<>>]}
    /\ stacks \in IF kind = "s3" THEN StackSets ELSE {{}}
    /\ cfDown \in IF kind = "s3" THEN BOOLEAN ELSE {FALSE}
    /\ pc = "tags"
    /\ idx = 1
    /\ calls = <<>>
    /\ stack_name = Unset
    /\ strategy = 0
    /\ raised = FALSE
    /\ row = Unset
    /\ resource_name = <<>>
    /\ tags \in {NoTags} \cup (IF tagResp.ok THEN {tagResp.Tags} ELSE TagMaps)
    /\ environment = Unset
    /\ cloudwatch = <<>>
    /\ clients = <<>>
    /\ metrics = <<>>
    /\ rows = <<>>
    /\ NoBatch

AgreeNext == ResolveNext \/ append_row

AgreeSpec == AgreeInit /\ [][AgreeNext]_vars

\* the serialized tags hold the reserved key with the value X
TagsFieldNames(r, X) == Contains(r.Tags, <<StackKey, "=">> \o X)

\* C27: in every row, when the Tags field holds
\* aws:cloudformation:stack-name=X with X not empty, the StackName field is X.
C27_StackNameAgreesWithTags ==
    \A i \in 1..Len(rows) : \A X \in {StackA, StackB, StackC} :
        TagsFieldNames(rows[i], X) => rows[i].StackName = X

\* the two fields agree when the resolver's call of the tag accessor returned
C27_AgreesWhenResolverReadTags ==
    tagResp.ok => C27_StackNameAgreesWithTags

(***************************************************************************)
(* The listing loops: get_all_queues, get_all_tables,                      *)
(* get_all_state_machines, get_all_functions with audit_functions,         *)
(* get_all_topics, get_all_buckets, get_rest_apis and get_http_apis list   *)
(* the resources page by page and run the per-resource body on each; main  *)
(* turns the result into the exit code.                                    *)
(***************************************************************************)
\* most resources a listing holds
MaxResources == 3
\* most pages a listing has
MaxPages == 2

\* the resources of the account, in the order the listing gives them
AllResources == [i \in 1..MaxResources |-> i]

\* the listing call of each builder
ListApi(k) ==
    CASE k = "sqs" -> "list_queues"
      [] k = "dynamodb" -> "list_tables"
      [] k = "sfn" -> "list_state_machines"
      [] k = "lambda" -> "list_functions"
      [] k = "sns" -> "list_topics"
      [] k = "s3" -> "list_buckets"
      [] k = "rest" -> "get_rest_apis"
      [] k = "http" -> "get_apis"

\* the builder asks for further pages: get_all_queues and get_all_buckets
\* make one listing call
Paginates(k) == k \notin {"sqs", "s3"}

\* what the handler around the listing call does when the call raises:
\* the rows built so far are returned, [] is returned, the exception is
\* raised again, or the listing loop is left with the resources it has
OnListingFailure(k) ==
    CASE k \in {"sqs", "dynamodb"} -> "return_rows"
      [] k \in {"sfn", "rest", "http"} -> "return_empty"
      [] k \in {"sns", "s3"} -> "raise"
      [] k = "lambda" -> "break"

\* what becomes of a resource whose calls raise: its helpers catch and the
\* row is appended with the values of the failure, the handler appends an
\* error row, or the handler of the per-resource try only logs
OnEnrichmentFailure(k) ==
    CASE k \in {"sqs", "lambda"} -> "row"
      [] k \in {"rest", "http"} -> "error_row"
      [] k \in {"dynamodb", "sfn", "sns", "s3"} -> "drop"

\* the rows the per-resource body appends for the resource r
RowsFor(k, r) ==
    IF r \notin fails THEN <<[Resource |-> r, Marker |-> "full"]>>
    ELSE CASE OnEnrichmentFailure(k) = "row" -> <<[Resource |-> r, Marker |-> "sentinel"]>>
           [] OnEnrichmentFailure(k) = "error_row" -> <<[Resource |-> r, Marker |-> "error"]>>
           [] OnEnrichmentFailure(k) = "drop" -> <<>>

\* the response carries a continuation token
HasToken(p) == p < Len(listing)

\* Fetched with the page replacing what was gathered
Fetched_replace(gathered, items) == items

\* functions.extend(response['Functions']); for the other builders the loop
\* over the page starts with nothing left of the page before
Fetched(gathered, items) == gathered \o items

\* Remaining with the failure of a resource ending the loop over the page
Remaining_abort(r, rest) == IF r \in fails THEN <<>> ELSE rest

\* the resources the loop goes on with after the resource r: the handler of
\* the per-resource try logs (and continues)
Remaining(r, rest) == rest

\* the operation is left: with return when exc is FALSE, by an exception
\* when it is TRUE
Leave(exc, value) ==
    /\ pc' = "left"
    /\ raised' = exc
    /\ returned' = value

\* one listing call and the handler around it
list_resources ==
    /\ pc = "list"
    /\ Call(ListApi(kind), page)
    /\ IF listing[page].ok
       THEN /\ pending' = Fetched(pending, listing[page].items)
            /\ IF kind = "lambda" /\ HasToken(page)
               THEN page' = page + 1 /\ pc' = "list"
               ELSE page' = page /\ pc' = "process"
            /\ UNCHANGED <<raised, returned>>
       ELSE /\ CASE OnListingFailure(kind) = "return_rows" -> Leave(FALSE, rows)
                 [] OnListingFailure(kind) = "return_empty" -> Leave(FALSE, <<>>)
                 [] OnListingFailure(kind) = "raise" -> Leave(TRUE, <<>>)
                 [] OnListingFailure(kind) = "break" ->
                        pc' = "process" /\ UNCHANGED <<raised, returned>>
            /\ UNCHANGED <<pending, page>>
    /\ UNCHANGED <<avars, inputs, listing, fails, handed, exit_code,
                   idx, stack_name, strategy, row, cvars>>

\* the per-resource body, run on the next resource
enrich_resource ==
    /\ pc = "process" /\ pending # <<>>
    /\ LET r == Head(pending) IN
          /\ handed' = Append(handed, r)
          /\ rows' = rows \o RowsFor(kind, r)
          /\ pending' = Remaining(r, Tail(pending))
    /\ UNCHANGED <<inputs, cloudwatch, clients, metrics, listing, fails, page, returned,
                   exit_code, pc, rvars, cvars>>

\* the end of the loop over the resources: the next page is asked for when
\* the response carried a token, else the rows are returned
end_of_page ==
    /\ pc = "process" /\ pending = <<>>
    /\ IF kind # "lambda" /\ Paginates(kind) /\ HasToken(page)
       THEN page' = page + 1 /\ pc' = "list" /\ UNCHANGED <<raised, returned>>
       ELSE page' = page /\ Leave(FALSE, rows)
    /\ UNCHANGED <<avars, inputs, listing, fails, pending, handed, exit_code,
                   idx, calls, stack_name, strategy, row, cvars>>

\* main: 1 when the builder raised, and for tables, buckets and topics when
\* it returned no row; else 0.  get_all_apis adds the rows of the REST and
\* the HTTP builder: the other builder's rows are taken to be none.
main ==
    /\ pc = "left"
    /\ exit_code' = IF raised THEN 1
                    ELSE IF returned = <<>> /\ kind \in {"dynamodb", "s3", "sns"} THEN 1
                    ELSE 0
    /\ pc' = "exited"
    /\ UNCHANGED <<avars, inputs, listing, fails, page, pending, handed, returned, rvars, cvars>>

\* the first m resources cut into pages at the points c
PagesOf(c) ==
    [i \in 1..Len(c) |->
        [ok |-> TRUE,
         items |-> SubSeq(AllResources, (IF i = 1 THEN 0 ELSE c[i - 1]) + 1, c[i])]]

\* the listings: up to MaxPages pages of successive resources, the last of
\* which the listing call may fail to deliver
Listings ==
    LET cuts == UNION {{c \in [1..n -> 0..MaxResources] :
                            \A i \in 1..(n - 1) : c[i] <= c[i + 1]} : n \in 1..MaxPages}
        whole == {PagesOf(c) : c \in cuts}
        failed == [ok |-> FALSE, items |-> <<>>]
    IN whole
       \cup {<<failed>>}
       \cup {Append(l, failed) : l \in {w \in whole : Len(w) < MaxPages}}

BatchInit ==
    /\ kind \in AuditKinds
    /\ listing \in IF Paginates(kind) THEN Listings ELSE {l \in Listings : Len(l) = 1}
    /\ fails \in SUBSET {AllResources[i] : i \in 1..MaxResources}
    /\ page = 1
    /\ pending = <<>>
    /\ handed = <<>>
    /\ returned = <<>>
    /\ exit_code = 0
    /\ pc = "list"
    /\ calls = <<>>
    /\ raised = FALSE
    /\ rows = <<>>
    /\ resource_arn = <<>>
    /\ queue_url = <<>>
    /\ bucket_name = <<>>
    /\ tagResp = [ok |-> FALSE, Tags |-> NoTags]
    /\ cfResp = <<>>
    /\ listResp = [ok |-> FALSE, StackResourceSummaries |-> <<>>]
    /\ stacks = {}
    /\ cfDown = FALSE
    /\ idx = 1
    /\ stack_name = Unset
    /\ strategy = 0
    /\ row = Unset
    /\ resource_name = <<>>
    /\ tags = NoTags
    /\ environment = Unset
    /\ cloudwatch = <<>>
    /\ clients = <<>>
    /\ metrics = <<>>

BatchNext ==
    \/ list_resources
    \/ enrich_resource
    \/ end_of_page
    \/ main

BatchSpec == BatchInit /\ [][BatchNext]_vars

\* the program is sequential: it takes its next step as long as it has one
BatchFairSpec == BatchSpec /\ WF_vars(BatchNext)

(***************************************************************************)
(* Properties of the listing loops.                                        *)
(***************************************************************************)
RECURSIVE ItemsUpTo(_)
\* the resources on the pages 1..n of the listing
ItemsUpTo(n) == IF n = 0 THEN <<>> ELSE ItemsUpTo(n - 1) \o listing[n].items

\* the resources on the pages the listing calls made so far have returned
Listed == ItemsUpTo(Len(calls))

\* the operation has returned or raised
Left == pc \in {"left", "exited"}

\* the listing call that was made last raised
ListingFailed == Len(calls) >= 1 /\ ~listing[Len(calls)].ok

\* the rows the builder holds for the resource r
RowsOf(r) == SelectSeq(rows, LAMBDA x : x.Resource = r)

\* C21: when the enrichment of a listed resource raises, every resource
\* listed after it is still handed to the per-resource body, once, and the
\* rows appended for it are those of the resource alone.
C21_FailureDoesNotAbort ==
    Left =>
        \A i \in 1..Len(Listed) : \A j \in 1..Len(Listed) :
            (i < j /\ Listed[i] \in fails) =>
                /\ Len(SelectSeq(handed, LAMBDA x : x = Listed[j])) = 1
                /\ RowsOf(Listed[j]) = RowsFor(kind, Listed[j])

\* C21 witness: of the state machines 1, 2 on one page the first raises and
\* the row of the second has been appended.
C21_Witness ==
    /\ kind = "sfn" /\ pc = "left"
    /\ Listed = <<1, 2>> /\ fails = {1}
    /\ handed = <<1, 2>>
    /\ returned = <<[Resource |-> 2, Marker |-> "full"]>>

\* C22: when the listing succeeds, the operation returns as many rows as the
\* listing produced resources, whatever enrichment raises.
C22_RowPerResource ==
    (pc = "left" /\ ~ListingFailed) => Len(returned) = Len(Listed)

\* the builders that append a row in every case return a row per resource
C22_RowPerResourceWhereAppended ==
    (OnEnrichmentFailure(kind) # "drop") => C22_RowPerResource

\* C23: when the listing produced at least one resource, main does not
\* return 1.
C23_TotalFailureOnlyWhenEmpty ==
    (pc = "exited" /\ Listed # <<>>) => exit_code # 1

\* C28: when the listing call for a page after the first raises, the
\* operation returns, and returns the rows built from the pages before.
C28_RowsRetained ==
    (pc = "left" /\ ListingFailed /\ Len(calls) >= 2) =>
        ~raised /\ returned = rows

\* the table and the function builders return the rows built from the pages
\* before
C28_RowsRetainedWhereReturned ==
    (kind \in {"dynamodb", "lambda"}) => C28_RowsRetained

\* every page is asked for at most once, in order, and none after the page
\* without a token or the call that raised
PagesOnce ==
    /\ Len(calls) <= Len(listing)
    /\ \A i \in 1..Len(calls) : calls[i] = [api |-> ListApi(kind), arg |-> i]

\* the resources handed to the per-resource body are resources of the pages
\* returned, in order and without repetition, and all of them once the
\* operation is left
HandedOnce ==
    /\ Len(handed) <= Len(Listed)
    /\ handed = SubSeq(Listed, 1, Len(handed))
    /\ Left => handed = Listed

\* C30: the pagination loop ends: the operation is left and main returns;
\* every page is asked for at most once, no page is asked for after a
\* response without a token or a listing call that raised, and every
\* resource of the pages returned is handed to the per-resource body once.
C30_PaginationTerminates ==
    /\ <>(pc = "exited")
    /\ [](PagesOnce /\ HandedOnce)

\* C30 witness: the functions 1, 2 of the first page and 3 of the second have
\* been handed to audit_functions after two listing calls.
C30_Witness ==
    /\ kind = "lambda" /\ pc = "exited"
    /\ Len(listing) = 2 /\ Len(calls) = 2
    /\ listing[1].items = <<1, 2>> /\ listing[2].items = <<3>>
    /\ handed = <<1, 2, 3>>

====
